---- MODULE Spec2Model ----
\* Verification model of VCFShark's multithreading queue and semaphore
\* (queue.h), of the CParams parameter blob, and of CCompressedFile: the worker
\* coordination, the open mode, the package hand-off and the size graph.
EXTENDS Integers, Sequences, FiniteSets, TLC

\* ------------------------------------------------------------------ bounds
NoWorkers == 2          \* consumer / worker threads
MaxPush == 3            \* elements enqueued in one run
MaxRange == 2           \* longest vector handed to PushRange
MaxProducers == 2       \* largest _n_producers given to the constructor
MaxExtraMarks == 1      \* MarkCompleted calls beyond the registered producers

Workers == 1..NoWorkers
Streams == {0, 1}       \* streams (key ids) the packages belong to
PartIds == {0}          \* part ids of the packages an arbitrary caller pushes

\* SPackage, reduced to the fields that route it: the stream and the part index.
Packages == [sid : Streams, part : PartIds]
\* SPackage() : key_id = -1, part_id = -1
NoPackage == [sid |-> -1, part |-> -1]

\* vectors of at most n packages (the arguments of PushRange)
RECURSIVE SeqsUpTo(_)
SeqsUpTo(n) ==
    IF n = 0 THEN {<<>>}
    ELSE LET S == SeqsUpTo(n - 1)
         IN  S \cup {Append(s, x) : s \in {t \in S : Len(t) = n - 1}, x \in Packages}

VARIABLES
    \* CRegisteringQueue<SPackage> (q_packages)
    q,              \* queue_t q; each entry carries the serial number of its push
    is_completed,
    n_producers,
    n_elements,
    \* threads calling Pop
    pc,             \* where each worker is
    data,           \* the T& data each worker passes to Pop
    \* history
    registered,     \* _n_producers of the constructor
    marks,          \* MarkCompleted calls made
    pushed,         \* values in the order the pushes took the mutex
    popped,         \* entries in the order the successful Pops took the mutex
    pushedAtMark,   \* how many values had been pushed at the last MarkCompleted
    \* CCompressedFile: the coder and text sections
    v_coder_part_ids,   \* per stream, the part that may enter the coder section
    v_text_part_ids,    \* per stream, the part that may enter the text section
    archive,            \* per stream, the parts appended so far, in order
    next_part,          \* per stream, the part_id of the next package made
    \* CCompressedFile: the open mode
    open_mode,
    archive_name,
    no_keys,
    lastCall,       \* history: the last OpenForReading / OpenForWriting / Close call
    \* CParams objects and the vector handed to store_params / load_params
    cparams,
    v_params,
    stored,         \* history: the neglect_limit whose blob v_params is, or -1
    lastLoad,       \* history: the last load_params call
    lastOp,         \* history: the last call made on a CParams object
    \* the orchestrator's buffers and the package it is handing over
    bufs,           \* v_size, v_data, v_compressed
    filled,         \* history: how many elements the buffers were given
    o_pck,          \* the SPackage just constructed, until it is pushed
    \* the size graph
    size_streams,   \* per key, the size stream buffered for it
    v_size_nodes,
    v_size_edges,
    \* CSemaphore and the threads calling WaitForZero
    counter,
    generation,
    spc,            \* where each waiting thread is
    wait_generation,
    semh            \* history: the units and decrements of the current generation

qvars == <<q, is_completed, n_producers, n_elements>>
hvars == <<registered, marks, pushed, popped, pushedAtMark>>
vars == <<q, is_completed, n_producers, n_elements, pc, data,
          registered, marks, pushed, popped, pushedAtMark,
          v_coder_part_ids, v_text_part_ids, archive, next_part,
          open_mode, archive_name, no_keys, lastCall,
          cparams, v_params, stored, lastLoad, lastOp,
          bufs, filled, o_pck,
          size_streams, v_size_nodes, v_size_edges,
          counter, generation, spc, wait_generation, semh>>
\* the caller's side of a push: the variables Push and PushRange do not touch
\* and the caller's own step sets together with them
orchside == <<bufs, filled, o_pck>>
cvars == <<v_coder_part_ids, v_text_part_ids, archive, next_part, orchside>>
queueside == <<qvars, pc, data, hvars, cvars>>
fileside == <<open_mode, archive_name, no_keys, lastCall>>
paramside == <<cparams, v_params, stored, lastLoad, lastOp>>
graphside == <<size_streams, v_size_nodes, v_size_edges>>
semside == <<counter, generation, spc, wait_generation, semh>>
\* what the actions of one part leave alone
notQueue == <<fileside, paramside, graphside, semside>>
notFile == <<queueside, paramside, graphside, semside>>
notParams == <<queueside, fileside, graphside, semside>>
notGraph == <<queueside, fileside, paramside, semside>>
notSem == <<queueside, fileside, paramside, graphside>>

\* ------------------------------------------------------- CRegisteringQueue

\* faulty variant: notify_one() in place of notify_all(): one blocked thread is woken
NotifyOneQueue(f) ==
    LET blocked == {w \in DOMAIN f : f[w] = "waiting"}
    IN  IF blocked = {} THEN f
        ELSE [f EXCEPT ![CHOOSE w \in blocked : \A v \in blocked : w <= v] = "woken"]

\* cv_queue_empty.notify_all(): every thread blocked in the wait becomes runnable
NotifyAllQueue(f) ==
    [w \in DOMAIN f |-> IF f[w] = "waiting" THEN "woken" ELSE f[w]]

\* CRegisteringQueue(_n_producers) -> Restart(_n_producers) on an empty q
QueueInit(n) ==
    /\ q = <<>>
    /\ is_completed = FALSE
    /\ n_producers = n
    /\ n_elements = 0

\* Restart(_n_producers): the three fields are reset, q is not touched and
\* nobody is notified; the history starts over for the new producers
Restart(_n_producers) ==
    /\ is_completed' = FALSE
    /\ n_producers' = _n_producers
    /\ n_elements' = 0
    /\ registered' = _n_producers
    /\ marks' = 0
    /\ pushedAtMark' = 0
    /\ UNCHANGED <<q, pc, data, pushed, popped, cvars, notQueue>>

IsEmpty == n_elements = 0

\* faulty variant: the element count is not looked at
IsCompleted_ProducersOnly == n_producers = 0

IsCompleted == n_elements = 0 /\ n_producers = 0

\* faulty variant: the last producer does not notify
MarkCompleted_NoNotify ==
    /\ n_producers' = n_producers - 1
    /\ marks' = marks + 1
    /\ pushedAtMark' = Len(pushed)
    /\ UNCHANGED <<q, is_completed, n_elements, pc, data, registered, pushed, popped>>
    /\ UNCHANGED <<cvars, notQueue>>

\* faulty variant: the new element goes to the front
Enqueued_Front(qq, e) == <<e>> \o qq

\* q.push(x)
Enqueued(qq, e) == Append(qq, e)

\* faulty variant: the loop stops after the first element
EnqueuedAll_FirstOnly(qq, es) ==
    IF es = <<>> THEN qq ELSE Enqueued(qq, Head(es))

\* for (auto &x : data) q.push(x)
RECURSIVE EnqueuedAll(_, _)
EnqueuedAll(qq, es) ==
    IF es = <<>> THEN qq ELSE EnqueuedAll(Enqueued(qq, Head(es)), Tail(es))

\* faulty variant: q.pop() left out
Dequeued_Keep(qq) == qq

\* q.pop()
Dequeued(qq) == Tail(qq)

MarkCompleted ==
    /\ n_producers' = n_producers - 1
    /\ pc' = IF n_producers - 1 = 0 THEN NotifyAllQueue(pc) ELSE pc
    /\ marks' = marks + 1
    /\ pushedAtMark' = Len(pushed)
    /\ UNCHANGED <<q, is_completed, n_elements, data, registered, pushed, popped>>
    /\ UNCHANGED <<cvars, notQueue>>

Push(x) ==
    LET was_empty == n_elements = 0
    IN  /\ q' = Enqueued(q, [id |-> Len(pushed) + 1, val |-> x])
        /\ n_elements' = n_elements + 1       \* uint32_t, never near 2^32 here
        /\ pc' = IF was_empty THEN NotifyAllQueue(pc) ELSE pc
        /\ pushed' = Append(pushed, x)
        /\ UNCHANGED <<is_completed, n_producers, data, registered, marks, popped, pushedAtMark>>
        /\ UNCHANGED <<v_coder_part_ids, v_text_part_ids, archive, notQueue>>

PushRange(xs) ==
    LET was_empty == n_elements = 0
    IN  /\ q' = EnqueuedAll(q, [i \in 1..Len(xs) |-> [id |-> Len(pushed) + i, val |-> xs[i]]])
        /\ n_elements' = n_elements + Len(xs)
        /\ pc' = IF was_empty THEN NotifyAllQueue(pc) ELSE pc
        /\ pushed' = pushed \o xs
        /\ UNCHANGED <<is_completed, n_producers, data, registered, marks, popped, pushedAtMark>>
        /\ UNCHANGED <<v_coder_part_ids, v_text_part_ids, archive, notQueue>>

\* faulty variant: the negation of n_producers is lost
PopReady_Negated == q # <<>> \/ n_producers # 0

\* the predicate of cv_queue_empty.wait in Pop
PopReady == q # <<>> \/ n_producers = 0

\* Pop from the point where the mutex is held and the predicate is evaluated
PopTry(w) ==
    IF ~PopReady
    THEN /\ pc' = [pc EXCEPT ![w] = "waiting"]
         /\ UNCHANGED <<qvars, data, hvars, cvars, notQueue>>
    ELSE IF n_elements = 0
    THEN /\ pc' = [pc EXCEPT ![w] = "done"]
         /\ UNCHANGED <<qvars, data, hvars, cvars, notQueue>>
    ELSE /\ data' = [data EXCEPT ![w] = Head(q).val]
         /\ q' = Dequeued(q)
         /\ n_elements' = n_elements - 1
         /\ pc' = IF n_elements - 1 = 0
                  THEN NotifyAllQueue([pc EXCEPT ![w] = "got"])
                  ELSE [pc EXCEPT ![w] = "got"]
         /\ popped' = Append(popped, Head(q))
         /\ UNCHANGED <<is_completed, n_producers, registered, marks, pushed, pushedAtMark>>
         /\ UNCHANGED <<cvars, notQueue>>

\* a thread calls Pop
PopBegin(w) == pc[w] = "idle" /\ PopTry(w)

\* a notified thread takes the mutex again and re-evaluates the predicate
PopWake(w) == pc[w] = "woken" /\ PopTry(w)

\* condition_variable::wait may return without a notification
SpuriousWake(w) ==
    /\ pc[w] \in {"waiting", "text_wait", "skip_wait", "coder_wait"}
    /\ pc' = [pc EXCEPT ![w] = CASE pc[w] = "waiting" -> "woken"
                                 [] pc[w] = "text_wait" -> "text_woken"
                                 [] pc[w] = "skip_wait" -> "skip_woken"
                                 [] pc[w] = "coder_wait" -> "coder_woken"]
    /\ UNCHANGED <<qvars, data, hvars, cvars, notQueue>>

\* the caller goes round its loop: while (q_packages->Pop(pck)) { ... }
Loop(w) ==
    /\ pc[w] = "got"
    /\ pc' = [pc EXCEPT ![w] = "idle"]
    /\ UNCHANGED <<qvars, data, hvars, cvars, notQueue>>

\* ------------------------------------- CCompressedFile: coder, text sections

\* cv_v_text.notify_all()
NotifyAllText(f) ==
    [w \in DOMAIN f |-> CASE f[w] = "text_wait" -> "text_woken"
                          [] f[w] = "skip_wait" -> "skip_woken"
                          [] OTHER -> f[w]]

\* cv_v_coder.notify_all()
NotifyAllCoder(f) ==
    [w \in DOMAIN f |-> IF f[w] = "coder_wait" THEN "coder_woken" ELSE f[w]]

\* faulty variant: a part at or past the expected one may enter
CoderReady_AtLeast(pck) == v_coder_part_ids[pck.sid] <= pck.part

\* the wait predicate of lock_coder_compressor: the package's part is the
\* stream's next expected part
CoderReady(pck) == v_coder_part_ids[pck.sid] = pck.part

\* the wait predicate of lock_text_compressor and skip_text_compressor
TextReady(pck) == v_text_part_ids[pck.sid] = pck.part

\* the worker enters the text section with the package it popped, or waits
lock_text_compressor(w) ==
    /\ pc[w] \in {"got", "text_woken"}
    /\ pc' = [pc EXCEPT ![w] = IF TextReady(data[w]) THEN "in_text" ELSE "text_wait"]
    /\ UNCHANGED <<qvars, data, hvars, cvars, notQueue>>

\* the worker leaves the text section: the stream's next part may enter
unlock_text_compressor(w) ==
    /\ pc[w] = "in_text"
    /\ v_text_part_ids' = [v_text_part_ids EXCEPT ![data[w].sid] = @ + 1]
    /\ pc' = NotifyAllText([pc EXCEPT ![w] = "coder"])
    /\ UNCHANGED <<qvars, data, hvars, v_coder_part_ids, archive, next_part, orchside, notQueue>>

\* a package that needs no text preprocessing takes its turn and passes
skip_text_compressor(w) ==
    /\ pc[w] \in {"got", "skip_woken"}
    /\ IF TextReady(data[w])
       THEN /\ v_text_part_ids' = [v_text_part_ids EXCEPT ![data[w].sid] = @ + 1]
            /\ pc' = NotifyAllText([pc EXCEPT ![w] = "coder"])
       ELSE /\ pc' = [pc EXCEPT ![w] = "skip_wait"]
            /\ UNCHANGED v_text_part_ids
    /\ UNCHANGED <<qvars, data, hvars, v_coder_part_ids, archive, next_part, orchside, notQueue>>

\* the worker enters the coder section, or waits for its part's turn
lock_coder_compressor(w) ==
    /\ pc[w] \in {"coder", "coder_woken"}
    /\ pc' = [pc EXCEPT ![w] = IF CoderReady(data[w]) THEN "in_coder" ELSE "coder_wait"]
    /\ UNCHANGED <<qvars, data, hvars, cvars, notQueue>>

\* inside the coder section the compressed part is appended to the archive
AddPart(w) ==
    /\ pc[w] = "in_coder"
    /\ archive' = [archive EXCEPT ![data[w].sid] =
                       Append(@, [part |-> data[w].part, by |-> w])]
    /\ pc' = [pc EXCEPT ![w] = "appended"]
    /\ UNCHANGED <<qvars, data, hvars, v_coder_part_ids, v_text_part_ids, next_part, orchside, notQueue>>

\* faulty variant: the waiting workers are not notified
unlock_coder_compressor_NoNotify(w) ==
    /\ pc[w] = "appended"
    /\ v_coder_part_ids' = [v_coder_part_ids EXCEPT ![data[w].sid] = @ + 1]
    /\ pc' = [pc EXCEPT ![w] = "idle"]
    /\ UNCHANGED <<qvars, data, hvars, v_text_part_ids, archive, next_part, orchside, notQueue>>

\* the worker leaves the coder section: the expected part advances, the
\* waiting workers are woken, and the worker goes back to Pop
unlock_coder_compressor(w) ==
    /\ pc[w] = "appended"
    /\ v_coder_part_ids' = [v_coder_part_ids EXCEPT ![data[w].sid] = @ + 1]
    /\ pc' = NotifyAllCoder([pc EXCEPT ![w] = "idle"])
    /\ UNCHANGED <<qvars, data, hvars, v_text_part_ids, archive, next_part, orchside, notQueue>>

\* the orchestrator makes the next package of a stream and pushes it
PushPackage(s) ==
    /\ Push([sid |-> s, part |-> next_part[s]])
    /\ next_part' = [next_part EXCEPT ![s] = @ + 1]
    /\ UNCHANGED orchside

\* ------------------------------------------- CCompressedFile: the open mode

\* enum class open_mode_t {none, reading, writing}
OpenModes == {"none", "reading", "writing"}

FileNames == {"a.vcfshark", "b.vcfshark"}

\* CCompressedFile()
FileInit ==
    /\ open_mode = "none"
    /\ archive_name = ""
    /\ no_keys = 0
    /\ lastCall = [op |-> "", ret |-> FALSE, from |-> "none",
                   closedBefore |-> FALSE, closedNow |-> FALSE]

Called(name, ret) ==
    [op |-> name, ret |-> ret, from |-> open_mode,
     closedBefore |-> lastCall.closedNow,
     closedNow |-> lastCall.closedNow \/ (name = "Close" /\ ret)]

\* OpenForReading(file_name); readable: the archive can be opened and is valid
OpenForReading(file_name, readable, keys) ==
    /\ IF open_mode = "none" /\ readable
       THEN /\ open_mode' = "reading"
            /\ archive_name' = file_name
            /\ no_keys' = keys
            /\ lastCall' = Called("OpenForReading", TRUE)
       ELSE /\ lastCall' = Called("OpenForReading", FALSE)
            /\ UNCHANGED <<open_mode, archive_name, no_keys>>
    /\ UNCHANGED notFile

\* OpenForWriting(file_name, _no_keys); writable: the archive can be created
OpenForWriting(file_name, _no_keys, writable) ==
    /\ IF open_mode = "none" /\ writable
       THEN /\ open_mode' = "writing"
            /\ archive_name' = file_name
            /\ no_keys' = _no_keys
            /\ lastCall' = Called("OpenForWriting", TRUE)
       ELSE /\ lastCall' = Called("OpenForWriting", FALSE)
            /\ UNCHANGED <<open_mode, archive_name, no_keys>>
    /\ UNCHANGED notFile

\* faulty variant: Close does not look at the open mode
Close_Always ==
    /\ open_mode' = "none"
    /\ lastCall' = Called("Close", TRUE)
    /\ UNCHANGED <<archive_name, no_keys, notFile>>

\* Close(): open_mode_t has no value for a closed file; the mode goes back to none
Close ==
    /\ IF open_mode = "none"
       THEN /\ lastCall' = Called("Close", FALSE)
            /\ UNCHANGED open_mode
       ELSE /\ open_mode' = "none"
            /\ lastCall' = Called("Close", TRUE)
    /\ UNCHANGED <<archive_name, no_keys, notFile>>

\* ------------------------------------------------------------------ CParams

ParamObjects == {1, 2}

\* values of the uint32_t field neglect_limit that callers set: both sides of
\* 256, and the largest integer TLC represents (2^31 - 1)
NeglectValues == {0, 10, 255, 256, 266, 2147483647}

\* vectors a caller may hand over, besides the ones store_params made
CallerVectors ==
    { <<>>, <<71, 84, 83, 49>>, <<71, 84, 83, 49, 7>>, <<71, 84, 83, 50, 7>>,
      <<103, 84, 83, 49, 7>>, <<71, 84, 83, 49, 7, 0>> }

\* (uint8_t) x
Byte(x) == x % 256

\* faulty variant: the first of the two assignments to no_threads stays
CParamsNew_FirstWins ==
    [work_mode |-> "none", vcf_file_name |-> "", db_file_name |-> "",
     sample_file_name |-> "", id_sample |-> "",
     store_sample_header |-> FALSE, out_type |-> "VCF",
     bcf_compression_level |-> "1", extra_variants |-> FALSE,
     neglect_limit |-> 10, no_threads |-> 1]

\* CParams(): the assignments of the constructor, in their order
CParamsNew ==
    LET p0 == [work_mode |-> "uninit", vcf_file_name |-> "", db_file_name |-> "",
               sample_file_name |-> "", id_sample |-> "",
               store_sample_header |-> "uninit", out_type |-> "uninit",
               bcf_compression_level |-> "uninit", extra_variants |-> "uninit",
               neglect_limit |-> "uninit", no_threads |-> "uninit"]
        p1 == [p0 EXCEPT !.work_mode = "none"]
        p2 == [p1 EXCEPT !.no_threads = 1]
        p3 == [p2 EXCEPT !.store_sample_header = FALSE]
        p4 == [p3 EXCEPT !.out_type = "VCF"]
        p5 == [p4 EXCEPT !.bcf_compression_level = "1"]
        p6 == [p5 EXCEPT !.extra_variants = FALSE]
        p7 == [p6 EXCEPT !.no_threads = 8]
    IN  [p7 EXCEPT !.neglect_limit = 10]

ParamsInit ==
    /\ cparams = [o \in ParamObjects |-> CParamsNew]
    /\ v_params \in CallerVectors
    /\ stored = -1
    /\ lastLoad = [obj |-> 0, ret |-> FALSE, blobOf |-> -1, neglect_limit |-> 0]
    /\ lastOp = [op |-> "", obj |-> 0]

\* a CParams object is constructed in place of object o
Construct(o) ==
    /\ cparams' = [cparams EXCEPT ![o] = CParamsNew]
    /\ lastOp' = [op |-> "CParams", obj |-> o]
    /\ UNCHANGED <<v_params, stored, lastLoad, notParams>>

\* the caller sets the public field neglect_limit
SetNeglect(o, n) ==
    /\ cparams' = [cparams EXCEPT ![o].neglect_limit = n]
    /\ lastOp' = [op |-> "neglect_limit", obj |-> o]
    /\ UNCHANGED <<v_params, stored, lastLoad, notParams>>

\* the caller takes another vector
TakeVector(v) ==
    /\ v_params' = v
    /\ stored' = -1
    /\ lastOp' = [op |-> "vector", obj |-> 0]
    /\ UNCHANGED <<cparams, lastLoad, notParams>>

\* faulty variant: the version byte '1' is not written
Blob_NoVersion(n) == <<71, 84, 83, Byte(n)>>

\* the five push_back calls of store_params: 'G' 'T' 'S' '1' (uint8_t) neglect_limit
Blob(n) == <<71, 84, 83, 49, Byte(n)>>

store_params(o) ==
    /\ v_params' = v_params \o Blob(cparams[o].neglect_limit)
    /\ stored' = IF v_params = <<>> THEN cparams[o].neglect_limit ELSE -1
    /\ lastOp' = [op |-> "store_params", obj |-> o]
    /\ UNCHANGED <<cparams, lastLoad, notParams>>

\* faulty variant: the version byte is not compared
LoadAccepts_NoVersionCheck(v) ==
    IF Len(v) # 5 THEN FALSE
    ELSE IF v[1] # 71 THEN FALSE
    ELSE IF v[2] # 84 THEN FALSE
    ELSE IF v[3] # 83 THEN FALSE
    ELSE TRUE

\* what load_params returns for a vector
LoadAccepts(v) ==
    IF Len(v) # 5 THEN FALSE
    ELSE IF v[1] # 71 THEN FALSE
    ELSE IF v[2] # 84 THEN FALSE
    ELSE IF v[3] # 83 THEN FALSE
    ELSE IF v[4] # 49 THEN FALSE
    ELSE TRUE

load_params(o) ==
    /\ IF LoadAccepts(v_params)
       THEN /\ cparams' = [cparams EXCEPT ![o].neglect_limit = v_params[5]]
            /\ lastLoad' = [obj |-> o, ret |-> TRUE, blobOf |-> stored,
                            neglect_limit |-> v_params[5]]
       ELSE /\ UNCHANGED cparams
            /\ lastLoad' = [obj |-> o, ret |-> FALSE, blobOf |-> stored,
                            neglect_limit |-> cparams[o].neglect_limit]
    /\ lastOp' = [op |-> "load_params", obj |-> o]
    /\ UNCHANGED <<v_params, stored, notParams>>

\* --------------------------------------------------------------- CSemaphore

NoWaiters == 2          \* threads calling WaitForZero
MaxUnits == 2           \* units added within one generation
MaxNum == 2             \* largest num given to IncNum
MaxInitCounter == 1     \* largest _counter given to the constructor
MaxDebt == 1            \* how far below zero the decrements take the counter

SemThreads == 1..NoWaiters
Generations == {0, 1}

\* CSemaphore(_counter) : counter(_counter), generation(0); the initial count of
\* a semaphore is taken to be 0 or more
SemInit(c) ==
    /\ counter = c
    /\ generation = 0
    /\ spc = [t \in SemThreads |-> "idle"]
    /\ wait_generation = [t \in SemThreads |-> 0]
    /\ semh = [base |-> c, added |-> 0, decs |-> 0,
               op |-> "", gen |-> 0, num |-> 0, tick |-> 0]

\* the history after a call: the count the generation in force started with
\* (the constructor's, 0 after a change of generation), its units and its
\* decrements, and the call itself; tick tells one call from the next
SemCalled(name, g, n, base, added, decs) ==
    [base |-> base, added |-> added, decs |-> decs,
     op |-> name, gen |-> g, num |-> n, tick |-> 1 - semh.tick]

Inc(new_generation) ==
    /\ IF generation = new_generation
       THEN /\ counter' = counter + 1
            /\ semh' = SemCalled("Inc", new_generation, 1,
                                 semh.base, semh.added + 1, semh.decs)
            /\ UNCHANGED generation
       ELSE /\ generation' = new_generation
            /\ counter' = 1
            /\ semh' = SemCalled("Inc", new_generation, 1, 0, 1, 0)
    /\ UNCHANGED <<spc, wait_generation, notSem>>

IncNum(num, new_generation) ==
    /\ IF generation = new_generation
       THEN /\ counter' = counter + num
            /\ semh' = SemCalled("IncNum", new_generation, num,
                                 semh.base, semh.added + num, semh.decs)
            /\ UNCHANGED generation
       ELSE /\ generation' = new_generation
            /\ counter' = num
            /\ semh' = SemCalled("IncNum", new_generation, num, 0, num, 0)
    /\ UNCHANGED <<spc, wait_generation, notSem>>

\* cv.notify_one(): one of the threads blocked in the wait, any of them,
\* becomes runnable; the outcomes are the possible values of spc
NotifiedOne(f) ==
    IF \A t \in DOMAIN f : f[t] # "waiting" THEN {f}
    ELSE {[f EXCEPT ![t] = "woken"] : t \in {u \in DOMAIN f : f[u] = "waiting"}}

\* cv.notify_all()
NotifiedAll(f) ==
    {[t \in DOMAIN f |-> IF f[t] = "waiting" THEN "woken" ELSE f[t]]}

\* faulty variant: the generation is not compared
Decremented_Always(dec_generation) == counter - 1

\* if (generation == dec_generation) --counter;
Decremented(dec_generation) ==
    IF generation = dec_generation THEN counter - 1 ELSE counter

Dec(dec_generation) ==
    /\ counter' = Decremented(dec_generation)
    /\ spc' \in (IF Decremented(dec_generation) = 0 THEN NotifiedOne(spc) ELSE {spc})
    /\ semh' = SemCalled("Dec", dec_generation, 0, semh.base, semh.added,
                         IF generation = dec_generation THEN semh.decs + 1 ELSE semh.decs)
    /\ UNCHANGED <<generation, wait_generation, notSem>>

Dec_notify_all(dec_generation) ==
    /\ counter' = Decremented(dec_generation)
    /\ spc' \in (IF Decremented(dec_generation) = 0 THEN NotifiedAll(spc) ELSE {spc})
    /\ semh' = SemCalled("Dec_notify_all", dec_generation, 0, semh.base, semh.added,
                         IF generation = dec_generation THEN semh.decs + 1 ELSE semh.decs)
    /\ UNCHANGED <<generation, wait_generation, notSem>>

\* faulty variant: the generation is not compared
WaitReady_CounterOnly(g) == counter = 0

\* the predicate of cv.wait in WaitForZero
WaitReady(g) == counter = 0 /\ generation = g

\* WaitForZero from the point where the mutex is held and the predicate is
\* evaluated: the call returns, or the thread blocks
WaitTry(t, g) ==
    /\ spc' = [spc EXCEPT ![t] = IF WaitReady(g) THEN "returned" ELSE "waiting"]
    /\ wait_generation' = [wait_generation EXCEPT ![t] = g]
    /\ UNCHANGED <<counter, generation, semh, notSem>>

\* a thread calls WaitForZero(wait_generation)
WaitForZero(t, g) == spc[t] = "idle" /\ WaitTry(t, g)

\* a notified thread takes the mutex again and re-evaluates the predicate
WaitWake(t) == spc[t] = "woken" /\ WaitTry(t, wait_generation[t])

\* condition_variable::wait may return without a notification
SemSpuriousWake(t) ==
    /\ spc[t] = "waiting"
    /\ spc' = [spc EXCEPT ![t] = "woken"]
    /\ UNCHANGED <<counter, generation, wait_generation, semh, notSem>>

\* the thread whose WaitForZero returned goes on, and may wait again
WaitDone(t) ==
    /\ spc[t] = "returned"
    /\ spc' = [spc EXCEPT ![t] = "idle"]
    /\ UNCHANGED <<counter, generation, wait_generation, semh, notSem>>

\* ------------------------------------- the orchestrator's buffers, SPackage

MaxFill == 2            \* elements the orchestrator buffers in one run

BufNames == {"v_size", "v_data", "v_compressed"}

\* the buffers of the compressed file start empty, no package is being made
OrchInit ==
    /\ bufs = [b \in BufNames |-> <<>>]
    /\ filled = 0
    /\ o_pck = NoPackage

\* the orchestrator appends to one of its buffers; every element buffered in a
\* run is a different one, so that each can be followed
Fill(b) ==
    /\ o_pck = NoPackage
    /\ filled < MaxFill
    /\ bufs' = [bufs EXCEPT ![b] = Append(@, filled + 1)]
    /\ filled' = filled + 1
    /\ UNCHANGED <<qvars, pc, data, hvars, o_pck>>
    /\ UNCHANGED <<v_coder_part_ids, v_text_part_ids, archive, next_part, notQueue>>

\* a vector that was the source of a move assignment is in a valid state the
\* language does not specify: the outcomes modelled are left empty, left as it was
MovedFrom(v) == {<<>>, v}

\* faulty variant: the vector is not cleared after the move
Cleared_Kept(v) == v

\* _v.clear()
Cleared(v) == <<>>

\* SPackage(_type, _key_id, ..., _part_id, _v_size, _v_data, _v_compressed):
\* the package made from the vectors, with the fields that route it
SPackageRaw(_key_id, _part_id, _v_size, _v_data, _v_compressed) ==
    [sid |-> _key_id, part |-> _part_id, is_func |-> FALSE,
     v_size |-> _v_size, v_data |-> _v_data, v_compressed |-> _v_compressed]

\* the constructor call on the orchestrator's buffers: what it returns and what
\* it leaves in the three vectors
MakePackage(s) ==
    /\ o_pck = NoPackage
    /\ Len(pushed) < MaxPush
    /\ o_pck' = SPackageRaw(s, next_part[s], bufs.v_size, bufs.v_data, bufs.v_compressed)
    /\ \E left \in [BufNames -> UNION {MovedFrom(bufs[b]) : b \in BufNames}] :
          /\ \A b \in BufNames : left[b] \in MovedFrom(bufs[b])
          /\ bufs' = [b \in BufNames |-> Cleared(left[b])]
    /\ next_part' = [next_part EXCEPT ![s] = @ + 1]
    /\ UNCHANGED <<qvars, pc, data, hvars, filled>>
    /\ UNCHANGED <<v_coder_part_ids, v_text_part_ids, archive, notQueue>>

\* the package made is pushed; the orchestrator keeps nothing of it
PushMade ==
    /\ o_pck # NoPackage
    /\ Push(o_pck)
    /\ o_pck' = NoPackage
    /\ UNCHANGED <<next_part, bufs, filled>>

\* ----------------------------------------------------------- the size graph

NoSizeKeys == 4         \* keys whose size streams are compared

SizeKeys == 0..(NoSizeKeys - 1)

\* size streams a key may have buffered
SizeStreamValues == {<<1, 1, 2>>, <<1, 1>>, <<2>>}

\* the undirected equality relation: the pairs (A, B), A # B, with strictly
\* equal size streams
SizeEqual(f) == {p \in SizeKeys \X SizeKeys : p[1] # p[2] /\ f[p[1]] = f[p[2]]}

\* the connected component of a set of keys under a relation
RECURSIVE Component(_, _)
Component(rel, S) ==
    LET T == S \cup {p[2] : p \in {r \in rel : r[1] \in S}}
    IN  IF T = S THEN S ELSE Component(rel, T)

\* faulty variant: the highest key_id of the component is taken
SizeRoot_Highest(C) == CHOOSE r \in C : \A k \in C : k <= r

\* the canonical root of a component: its lowest key_id
SizeRoot(C) == CHOOSE r \in C : \A k \in C : r <= k

RootOf(f, k) == SizeRoot(Component(SizeEqual(f), {k}))

\* the node set {(key_id, is_root)}
SizeNodes(f) == {<<k, RootOf(f, k) = k>> : k \in SizeKeys}

\* the edge set {(src, dst)}: root -> non-root
SizeEdges(f) == {<<RootOf(f, k), k>> : k \in {x \in SizeKeys : RootOf(f, x) # x}}

\* no size graph has been computed for the size streams f
GraphInit(f) ==
    /\ size_streams = f
    /\ v_size_nodes = {}
    /\ v_size_edges = {}

process_function_size ==
    /\ v_size_nodes' = SizeNodes(size_streams)
    /\ v_size_edges' = SizeEdges(size_streams)
    /\ UNCHANGED <<size_streams, notGraph>>

\* the parts a specification does not exercise, as their constructors leave them
GraphAtRest == GraphInit([k \in SizeKeys |-> <<>>])
SemAtRest == SemInit(0)

\* ------------------------------------------------------------ specification

QueueSideInit ==
    /\ \E n \in 0..MaxProducers : registered = n /\ QueueInit(n)
    /\ pc = [w \in Workers |-> "idle"]
    /\ data = [w \in Workers |-> NoPackage]
    /\ marks = 0
    /\ pushed = <<>>
    /\ popped = <<>>
    /\ pushedAtMark = 0
    /\ v_coder_part_ids = [s \in Streams |-> 0]
    /\ v_text_part_ids = [s \in Streams |-> 0]
    /\ archive = [s \in Streams |-> <<>>]
    /\ next_part = [s \in Streams |-> 0]
    /\ OrchInit

\* the vector of the parameter blob starts empty where the blob is not looked at
Init ==
    /\ QueueSideInit
    /\ FileInit
    /\ ParamsInit /\ v_params = <<>>
    /\ GraphAtRest /\ SemAtRest

\* a caller pushes any value, while the run's budget of elements lasts
CallerPush(x) == Len(pushed) < MaxPush /\ Push(x) /\ UNCHANGED <<next_part, orchside>>

CallerPushRange(xs) ==
    Len(pushed) + Len(xs) <= MaxPush /\ PushRange(xs) /\ UNCHANGED <<next_part, orchside>>

\* any callers: pushes, pops and completion marks in any order
Next ==
    \/ \E x \in Packages : CallerPush(x)
    \/ \E xs \in SeqsUpTo(MaxRange) : CallerPushRange(xs)
    \/ marks < registered + MaxExtraMarks /\ MarkCompleted
    \/ \E w \in Workers : PopBegin(w)
    \/ \E w \in Workers : PopWake(w)
    \/ \E w \in Workers : SpuriousWake(w)
    \/ \E w \in Workers : Loop(w)

Spec == Init /\ [][Next]_vars

\* workers that loop on Pop until it returns false, and producers that each
\* call MarkCompleted once, after their last push
ProducerPush ==
    /\ marks < registered
    /\ \/ \E x \in Packages : CallerPush(x)
       \/ \E xs \in SeqsUpTo(MaxRange) : CallerPushRange(xs)

ProducerDone == marks < registered /\ MarkCompleted

NextWorkers ==
    \/ ProducerPush
    \/ ProducerDone
    \/ \E w \in Workers : PopBegin(w)
    \/ \E w \in Workers : PopWake(w)
    \/ \E w \in Workers : SpuriousWake(w)
    \/ \E w \in Workers : Loop(w)

SpecWorkers ==
    /\ Init
    /\ [][NextWorkers]_vars
    /\ WF_vars(ProducerDone)
    /\ \A w \in Workers :
          WF_vars(PopBegin(w)) /\ WF_vars(PopWake(w)) /\ WF_vars(Loop(w))

\* the orchestrator, the one producer of q_packages, pushes each stream's
\* packages in part order and marks completion last; the workers compress
MaxPackages == MaxPush

OrchestratorPush ==
    /\ marks = 0
    /\ Len(pushed) < MaxPackages
    /\ \E s \in Streams : PushPackage(s)

OrchestratorDone == marks = 0 /\ MarkCompleted

InitPipe == Init /\ registered = 1

NextPipe ==
    \/ OrchestratorPush
    \/ OrchestratorDone
    \/ \E w \in Workers : PopBegin(w)
    \/ \E w \in Workers : PopWake(w)
    \/ \E w \in Workers : SpuriousWake(w)
    \/ \E w \in Workers : lock_text_compressor(w)
    \/ \E w \in Workers : unlock_text_compressor(w)
    \/ \E w \in Workers : skip_text_compressor(w)
    \/ \E w \in Workers : lock_coder_compressor(w)
    \/ \E w \in Workers : AddPart(w)
    \/ \E w \in Workers : unlock_coder_compressor(w)

SpecPipe ==
    /\ InitPipe
    /\ [][NextPipe]_vars
    /\ \A w \in Workers :
          /\ WF_vars(PopBegin(w)) /\ WF_vars(PopWake(w))
          /\ WF_vars(lock_text_compressor(w) \/ skip_text_compressor(w))
          /\ WF_vars(unlock_text_compressor(w))
          /\ WF_vars(lock_coder_compressor(w))
          /\ WF_vars(AddPart(w))
          /\ WF_vars(unlock_coder_compressor(w))

\* the calls on one CCompressedFile, in any order
MaxKeys == 2

InitFile ==
    /\ QueueSideInit /\ registered = 1
    /\ FileInit
    /\ ParamsInit /\ v_params = <<>>
    /\ GraphAtRest /\ SemAtRest

NextFile ==
    \/ \E f \in FileNames, ok \in BOOLEAN, k \in 0..MaxKeys : OpenForReading(f, ok, k)
    \/ \E f \in FileNames, k \in 0..MaxKeys, ok \in BOOLEAN : OpenForWriting(f, k, ok)
    \/ Close

SpecFile == InitFile /\ [][NextFile]_vars

\* CParams objects and one vector, used in any order
MaxStores == 2

InitParams ==
    /\ QueueSideInit /\ registered = 1
    /\ FileInit
    /\ ParamsInit
    /\ GraphAtRest /\ SemAtRest

NextParams ==
    \/ \E o \in ParamObjects : Construct(o)
    \/ \E o \in ParamObjects, n \in NeglectValues : SetNeglect(o, n)
    \/ \E v \in CallerVectors : TakeVector(v)
    \/ \E o \in ParamObjects : Len(v_params) < 5 * MaxStores /\ store_params(o)
    \/ \E o \in ParamObjects : load_params(o)

SpecParams == InitParams /\ [][NextParams]_vars

\* consumers that each call Pop once while the producers stay active
InitOnce == Init /\ registered >= 1

NextOnce ==
    \/ \E x \in Packages : CallerPush(x)
    \/ \E xs \in SeqsUpTo(MaxRange) : CallerPushRange(xs)
    \/ \E w \in Workers : PopBegin(w)
    \/ \E w \in Workers : PopWake(w)
    \/ \E w \in Workers : SpuriousWake(w)

SpecOnce ==
    /\ InitOnce
    /\ [][NextOnce]_vars
    /\ \A w \in Workers : WF_vars(PopBegin(w)) /\ WF_vars(PopWake(w))

\* any callers, the queue being restarted at any moment
NextRestart ==
    \/ Next
    \/ \E n \in 0..MaxProducers : Restart(n)

SpecRestart == Init /\ [][NextRestart]_vars

\* producers that each make one call while consumers pop: one PushRange call
\* per stream, with the stream's parts 0, 1, ... as its vector, and one Push of
\* a package of another key
RangeOf(s, k) == [i \in 1..k |-> [sid |-> s, part |-> i - 1]]

OtherPackage == [sid |-> 2, part |-> 0]

NotPushed(s) == \A i \in 1..Len(pushed) : pushed[i].sid # s

RangeCall(s, k) ==
    NotPushed(s) /\ PushRange(RangeOf(s, k)) /\ UNCHANGED <<next_part, orchside>>

SingleCall ==
    NotPushed(OtherPackage.sid) /\ Push(OtherPackage) /\ UNCHANGED <<next_part, orchside>>

InitRange == Init /\ registered = 1

NextRange ==
    \/ \E s \in Streams, k \in 1..MaxRange : RangeCall(s, k)
    \/ SingleCall
    \/ \E w \in Workers : PopBegin(w)
    \/ \E w \in Workers : PopWake(w)
    \/ \E w \in Workers : SpuriousWake(w)
    \/ \E w \in Workers : Loop(w)

SpecRange == InitRange /\ [][NextRange]_vars

\* one CSemaphore, called by any threads in any order
InitSem ==
    /\ QueueSideInit /\ registered = 1
    /\ FileInit
    /\ ParamsInit /\ v_params = <<>>
    /\ GraphAtRest
    /\ \E c \in 0..MaxInitCounter : SemInit(c)

SemInc(g) == (generation = g => semh.added < MaxUnits) /\ Inc(g)

SemIncNum(n, g) == (generation = g => semh.added + n <= MaxUnits) /\ IncNum(n, g)

SemDec(g) == (generation = g => counter > -MaxDebt) /\ Dec(g)

SemDecAll(g) == (generation = g => counter > -MaxDebt) /\ Dec_notify_all(g)

NextSem ==
    \/ \E g \in Generations : SemInc(g)
    \/ \E n \in 0..MaxNum, g \in Generations : SemIncNum(n, g)
    \/ \E g \in Generations : SemDec(g)
    \/ \E g \in Generations : SemDecAll(g)
    \/ \E t \in SemThreads, g \in Generations : WaitForZero(t, g)
    \/ \E t \in SemThreads : WaitWake(t)
    \/ \E t \in SemThreads : SemSpuriousWake(t)
    \/ \E t \in SemThreads : WaitDone(t)

SpecSem == InitSem /\ [][NextSem]_vars

\* the same without spurious wake-ups, under fair scheduling: a notified thread
\* gets the mutex
NextSemFair ==
    \/ \E g \in Generations : SemInc(g)
    \/ \E n \in 0..MaxNum, g \in Generations : SemIncNum(n, g)
    \/ \E g \in Generations : SemDec(g)
    \/ \E g \in Generations : SemDecAll(g)
    \/ \E t \in SemThreads, g \in Generations : WaitForZero(t, g)
    \/ \E t \in SemThreads : WaitWake(t)
    \/ \E t \in SemThreads : WaitDone(t)

SpecSemFair ==
    /\ InitSem
    /\ [][NextSemFair]_vars
    /\ \A t \in SemThreads : WF_vars(WaitWake(t))

\* the orchestrator fills its buffers, makes a raw package of them once they
\* hold something and pushes it, again and again, and marks completion last;
\* the workers pop. One stream is enough to follow the buffers.
HandoffDone == marks = 0 /\ o_pck = NoPackage /\ MarkCompleted

HandoffStreams == {0}

HandOff(s) == (\E b \in BufNames : bufs[b] # <<>>) /\ MakePackage(s)

InitHandoff == Init /\ registered = 1

NextHandoff ==
    \/ \E b \in BufNames : Fill(b)
    \/ \E s \in HandoffStreams : HandOff(s)
    \/ PushMade
    \/ HandoffDone
    \/ \E w \in Workers : PopBegin(w)
    \/ \E w \in Workers : PopWake(w)
    \/ \E w \in Workers : SpuriousWake(w)
    \/ \E w \in Workers : Loop(w)

SpecHandoff == InitHandoff /\ [][NextHandoff]_vars

\* the size graph is computed for any assignment of size streams to the keys
InitGraph ==
    /\ QueueSideInit /\ registered = 1
    /\ FileInit
    /\ ParamsInit /\ v_params = <<>>
    /\ SemAtRest
    /\ \E f \in [SizeKeys -> SizeStreamValues] : GraphInit(f)

NextGraph == process_function_size

SpecGraph == InitGraph /\ [][NextGraph]_vars

\* ------------------------------------------------------------------ claims

InPop(w) == pc[w] \in {"idle", "waiting", "woken"}
ReturnsTrue(w) == InPop(w) /\ pc'[w] = "got"
ReturnsFalse(w) == InPop(w) /\ pc'[w] = "done"
AllExited == \A w \in Workers : pc[w] = "done"

\* C1: the queue is FIFO. The successful Pops, in the order they took the mutex,
\* return the first pushed elements in push order, each with the value that was
\* passed to its push.
C1_Fifo ==
    /\ Len(popped) <= Len(pushed)
    /\ \A i \in 1..Len(popped) : popped[i].id = i /\ popped[i].val = pushed[i]
    /\ \A w \in Workers :
          pc[w] = "got" => \E i \in 1..Len(popped) : popped[i].val = data[w]

C1_Witness ==
    /\ Len(popped) >= 2
    /\ popped[1].val # popped[2].val
    /\ \E w, v \in Workers :
          /\ pc[w] = "got" /\ data[w] = popped[1].val
          /\ pc[v] = "got" /\ data[v] = popped[2].val

\* C2: Pop returns true only when an element is present (and delivers the front
\* one); it returns false only when the queue is empty and as many MarkCompleted
\* calls as registered producers have been made; on an empty queue with a
\* producer still active it does not return.
C2_PopBlocksUntilItemOrDone ==
    [][registered >= 1 =>
        \A w \in Workers :
          /\ ReturnsTrue(w) => q # <<>> /\ data'[w] = Head(q).val
          /\ ReturnsFalse(w) => q = <<>> /\ marks >= registered
          /\ (InPop(w) /\ q = <<>> /\ marks < registered) => InPop(w)']_vars

C2_Witness ==
    /\ registered >= 1
    /\ \E w, v \in Workers : pc[w] = "done" /\ pc[v] = "waiting"
    /\ popped # <<>>

\* C3: when every registered producer calls MarkCompleted once after its last
\* push, every worker that loops on Pop until it returns false exits, the ones
\* blocked in Pop when the last MarkCompleted runs included.
C3_WorkersTerminate == <>[]AllExited

C3_Witness ==
    /\ registered >= 1
    /\ marks = registered
    /\ q = <<>>
    /\ popped # <<>>
    /\ \E w, v \in Workers : pc[w] = "woken" /\ pc[v] = "done"

\* C4: no element is returned by two Pops, and when every worker has got false
\* from Pop after all producers marked completion, every element pushed before
\* the last MarkCompleted has been returned by exactly one Pop.
C4_NoLossNoDuplicate ==
    /\ \A i, j \in 1..Len(popped) : popped[i].id = popped[j].id => i = j
    /\ \A i \in 1..Len(popped) : popped[i].id \in 1..Len(pushed)
    /\ (AllExited /\ marks = registered) =>
          \A k \in 1..pushedAtMark :
             Cardinality({i \in 1..Len(popped) : popped[i].id = k}) = 1

C4_Witness ==
    /\ AllExited
    /\ marks = registered
    /\ pushedAtMark >= 2
    /\ \E w, v \in Workers : data[w] # NoPackage /\ data[v] # NoPackage /\ data[w] # data[v]

\* C5: no wake-up is lost. No consumer stays blocked in the wait of Pop while
\* the queue holds an element, and once as many elements have been pushed as
\* there are consumers calling Pop, every consumer's Pop returns true.
C5_NoLostWakeup ==
    /\ [](q # <<>> => \A w \in Workers : pc[w] # "waiting")
    /\ [](Len(pushed) >= NoWorkers => <>(\A w \in Workers : pc[w] = "got"))

C5_Witness ==
    /\ \A w \in Workers : pc[w] = "got"
    /\ Len(pushed) = NoWorkers
    /\ marks < registered

\* C6 as stated: IsCompleted is true exactly when the queue is empty and at
\* least as many MarkCompleted calls as registered producers have been made.
C6_Original ==
    registered >= 1 => (IsCompleted <=> (q = <<>> /\ marks >= registered))

\* C6, amended: IsCompleted is true exactly when the queue is empty and exactly
\* as many MarkCompleted calls as registered producers have been made; a Pop
\* called in that state returns false without blocking.
C6_CompletedIffEmptyAndExactlyMarked ==
    /\ [](IsCompleted <=> (q = <<>> /\ marks = registered))
    /\ [][\A w \in Workers :
            (IsCompleted /\ pc[w] = "idle" /\ pc'[w] # "idle") => pc'[w] = "done"]_vars

C6_Witness ==
    /\ IsCompleted
    /\ registered >= 1
    /\ popped # <<>>
    /\ \E w \in Workers : pc[w] = "done"

InOrder(parts) == \A i \in 1..Len(parts) : parts[i].part = i - 1

\* C7: a worker appends a package's part only while the package's part_id is
\* the stream's next expected part (v_coder_part_ids), so every stream's
\* appended parts are 0, 1, 2, ... without gap or repeat in every interleaving.
C7_PartsAppendedInOrder ==
    /\ [](\A s \in Streams : InOrder(archive[s]) /\ Len(archive[s]) >= v_coder_part_ids[s])
    /\ [](\A w \in Workers : pc[w] = "in_coder" => CoderReady(data[w]))
    /\ [][\A s \in Streams :
            archive'[s] # archive[s] =>
               \E w \in Workers :
                  /\ pc[w] = "in_coder" /\ data[w].sid = s
                  /\ data[w].part = v_coder_part_ids[s]
                  /\ archive'[s] = Append(archive[s], [part |-> data[w].part, by |-> w])]_vars

C7_Witness ==
    \E s \in Streams :
       /\ Len(archive[s]) >= 2
       /\ archive[s][1].by # archive[s][2].by

\* C8: with each stream's packages pushed in part order and at least one
\* worker, a worker waiting in the coder section for its part's turn gets in,
\* and every package pushed is appended to the archive, the text section being
\* taken or skipped on the way.
AllAppended == \A s \in Streams : Len(archive[s]) = next_part[s]
OutOfSections == \A w \in Workers : pc[w] \in {"idle", "waiting", "woken", "done"}

C8_CoderSectionLive == <>[](AllAppended /\ OutOfSections)

C8_Witness ==
    \E w, v \in Workers :
       /\ pc[w] = "coder_wait"
       /\ pc[v] \in {"coder", "in_coder", "appended"}
       /\ data[w].sid = data[v].sid
       /\ data[w].part = data[v].part + 1
       /\ q # <<>>

LoadStep(o) == lastLoad' # lastLoad /\ lastLoad'.obj = o

\* C10 as stated: the blob store_params writes into an empty vector is accepted
\* by load_params on any object, which then holds the neglect_limit stored.
C10_Original ==
    [][\A o \in ParamObjects :
          (LoadStep(o) /\ stored # -1) =>
              (lastLoad'.ret /\ cparams'[o].neglect_limit = stored)]_vars

\* C10, amended: the blob store_params writes into an empty vector is accepted
\* by load_params on any object, which then holds the low 8 bits of the
\* neglect_limit stored: the value itself exactly when it is below 256.
C10_RoundTripLowByte ==
    [][\A o \in ParamObjects :
          (LoadStep(o) /\ stored # -1) =>
              /\ lastLoad'.ret
              /\ cparams'[o].neglect_limit = stored % 256
              /\ (cparams'[o].neglect_limit = stored) <=> (stored < 256)]_vars

C10_Witness ==
    /\ lastLoad.blobOf = 266
    /\ lastLoad.ret
    /\ stored = 266
    /\ cparams[lastLoad.obj].neglect_limit = 10
    /\ \E o \in ParamObjects : o # lastLoad.obj /\ cparams[o].neglect_limit = 266

\* a step that is the call of op on object o: every call records itself
ParamCall(name, o) == lastOp' = [op |-> name, obj |-> o]

\* C11 as stated: whatever the vector held before the call, after
\* store_params(v) the vector is exactly the five bytes 'G' 'T' 'S' '1' and the
\* (low byte of the) neglect_limit of the object.
C11_Original ==
    [][\A o \in ParamObjects :
          ParamCall("store_params", o) => v_params' = Blob(cparams[o].neglect_limit)]_vars

\* C14: a default-constructed CParams has no_threads 8, the later of the two
\* assignments of the constructor, work_mode none and neglect_limit 10.
C14_Defaults ==
    \A o \in ParamObjects :
       (lastOp.op = "" \/ lastOp = [op |-> "CParams", obj |-> o]) =>
           /\ cparams[o].no_threads = 8
           /\ cparams[o].work_mode = "none"
           /\ cparams[o].neglect_limit = 10

C14_Witness ==
    /\ lastOp.op = "CParams"
    /\ lastLoad.ret /\ lastLoad.obj = lastOp.obj /\ lastLoad.neglect_limit = 7
    /\ cparams[lastOp.obj].no_threads = 8
    /\ \E o \in ParamObjects : cparams[o].neglect_limit = 266

Malformed(v) == Len(v) # 5 \/ <<v[1], v[2], v[3], v[4]>> # <<71, 84, 83, 49>>

\* C17: for a vector whose length is not 5 or whose first four bytes are not
\* 'G' 'T' 'S' '1', load_params returns false and changes no field of any
\* CParams object; for a 5-byte vector with these four bytes it returns true
\* and changes only neglect_limit, to the fifth byte. The vector is not changed.
C17_LoadRejectsMalformed ==
    [][\A o \in ParamObjects :
          ParamCall("load_params", o) =>
              /\ Malformed(v_params) => (~lastLoad'.ret /\ cparams' = cparams)
              /\ ~Malformed(v_params) =>
                    /\ lastLoad'.ret
                    /\ cparams' = [cparams EXCEPT ![o].neglect_limit = v_params[5]]
              /\ v_params' = v_params]_vars

C17_Witness ==
    /\ lastOp.op = "load_params"
    /\ ~lastLoad.ret
    /\ Len(v_params) = 5
    /\ cparams[lastOp.obj].neglect_limit = 266
    /\ \E o \in ParamObjects : cparams[o].neglect_limit = 7

Elements(v) == {v[i] : i \in 1..Len(v)}
Contents(p) == Elements(p.v_size) \cup Elements(p.v_data) \cup Elements(p.v_compressed)
OrchestratorHolds == UNION {Elements(bufs[b]) : b \in BufNames}
QueueHolds == UNION {Contents(q[i].val) : i \in 1..Len(q)}
TransitHolds == IF o_pck = NoPackage THEN {} ELSE Contents(o_pck)
WorkerHolds(w) == IF data[w] = NoPackage THEN {} ELSE Contents(data[w])

\* C12: the constructor of a raw SPackage moves the whole contents of v_size,
\* v_data and v_compressed, unchanged and in order, into the package and leaves
\* the three vectors empty; the package reaches the queue as it was made, and no
\* buffered element is held both by the orchestrator's buffers and by a package
\* that is in transit, queued or with a worker; none is lost on the way.
C12_ExclusiveHandOff ==
    /\ [][(o_pck = NoPackage /\ o_pck' # NoPackage) =>
             /\ o_pck'.v_size = bufs.v_size
             /\ o_pck'.v_data = bufs.v_data
             /\ o_pck'.v_compressed = bufs.v_compressed
             /\ \A b \in BufNames : bufs'[b] = <<>>]_vars
    /\ [][(o_pck # NoPackage /\ o_pck' = NoPackage) =>
             (Len(q') = Len(q) + 1 /\ q'[Len(q')].val = o_pck)]_vars
    /\ [](/\ OrchestratorHolds \cap TransitHolds = {}
          /\ OrchestratorHolds \cap QueueHolds = {}
          /\ \A w \in Workers : OrchestratorHolds \cap WorkerHolds(w) = {}
          /\ \A e \in 1..filled :
                \/ e \in OrchestratorHolds \/ e \in TransitHolds \/ e \in QueueHolds
                \/ \E i \in 1..Len(popped) : e \in Contents(popped[i].val))

C12_Witness ==
    /\ \E w \in Workers :
          /\ pc[w] = "got"
          /\ WorkerHolds(w) # {}
          /\ \E b \in BufNames : data[w][b] = <<1, 2>>
    /\ OrchestratorHolds = {}
    /\ filled = 2

SizeRoots == {n[1] : n \in {m \in v_size_nodes : m[2]}}
SizeNonRoots == {n[1] : n \in {m \in v_size_nodes : ~m[2]}}
Incoming(k) == {e \in v_size_edges : e[2] = k}
\* the keys reached from k along one or more edges
ReachedFrom(k) ==
    LET first == {e[2] : e \in {d \in v_size_edges : d[1] = k}}
    IN  IF first = {} THEN {} ELSE Component(v_size_edges, first)

\* C13: the size graph computed for any assignment of size streams is a forest:
\* every key is one node, root or not; every edge goes from a root to a
\* non-root with a strictly equal size stream and from a lower key_id to a
\* higher one; every non-root has exactly one incoming edge, every root none;
\* no key is reached from itself.
C13_SizeGraphForest ==
    v_size_nodes # {} =>
        /\ SizeRoots \cup SizeNonRoots = SizeKeys
        /\ SizeRoots \cap SizeNonRoots = {}
        /\ \A e \in v_size_edges :
              /\ e[1] < e[2]
              /\ e[1] \in SizeRoots /\ e[2] \in SizeNonRoots
              /\ size_streams[e[1]] = size_streams[e[2]]
        /\ \A k \in SizeNonRoots : Cardinality(Incoming(k)) = 1
        /\ \A k \in SizeRoots : Incoming(k) = {}
        /\ \A k \in SizeKeys : k \notin ReachedFrom(k)
        /\ \A a, b \in SizeRoots : a # b => size_streams[a] # size_streams[b]

C13_Witness ==
    /\ Cardinality(SizeRoots) = 2
    /\ 0 \in SizeRoots
    /\ \E r \in SizeRoots : r # 0 /\ Cardinality({e \in v_size_edges : e[1] = r}) >= 2

\* C15 as stated: in every state reached by Push, PushRange, Pop, MarkCompleted
\* and Restart calls, n_elements is the number of elements held in q.
C15_Original == n_elements = Len(q)

\* the elements in the order consumers meet them: the ones dequeued, in the
\* order of their Pops, followed by the ones still queued
Observed == [i \in 1..(Len(popped) + Len(q)) |->
                IF i <= Len(popped) THEN popped[i].val ELSE q[i - Len(popped)].val]
PlacesOf(seq, s) == {i \in 1..Len(seq) : seq[i].sid = s}
Contiguous(P) == \A i, j \in P : \A k \in i..j : k \in P

\* C16: the elements of one PushRange call are enqueued together, contiguously
\* and in vector order: they all appear in the one step of the call and none
\* later, and neither in the queue nor in the order of the Pops does an element
\* of another call stand between two of them.
C16_PushRangeAtomic ==
    /\ [](\A s \in Streams :
            LET P == PlacesOf(Observed, s)
            IN  /\ Contiguous(P)
                /\ \A i \in P : Observed[i].part = Cardinality({j \in P : j < i})
                /\ Cardinality(P) = Cardinality(PlacesOf(pushed, s))
                /\ Contiguous(PlacesOf([i \in 1..Len(popped) |-> popped[i].val], s)))
    /\ [][\A s \in Streams :
            PlacesOf(Observed, s) # {} =>
                Cardinality(PlacesOf(Observed, s)') = Cardinality(PlacesOf(Observed, s))]_vars

C16_Witness ==
    /\ Len(popped) >= 3
    /\ popped[1].val.sid = popped[2].val.sid
    /\ popped[3].val = OtherPackage
    /\ Len(q) >= 2
    /\ \E w \in Workers : pc[w] = "waiting" \/ pc[w] = "got"

WaitReturns(t) == spc[t] # "returned" /\ spc'[t] = "returned"

Blocked(t, g) == spc[t] \in {"waiting", "woken"} /\ wait_generation[t] = g

\* C19 as stated: when the semaphore reaches counter 0 with generation g and
\* stays there, every thread blocked in WaitForZero(g) returns in the end,
\* whichever call brought the semaphore there and however many threads wait.
C19_Original ==
    \A t \in SemThreads, g \in Generations :
       Blocked(t, g) ~> (spc[t] = "returned" \/ ~(counter = 0 /\ generation = g))

\* C20 as stated: counter is the units added by Inc and IncNum minus the Dec
\* and Dec_notify_all calls made with the generation in force since it changed.
C20_Original == counter = semh.added - semh.decs

\* C20, amended: counter is the count the generation in force started with (the
\* constructor's _counter until the generation first changes, 0 afterwards)
\* plus the units added by Inc and IncNum minus the Dec and Dec_notify_all calls
\* made with that generation; an Inc or IncNum with another generation sets the
\* generation and restarts the counter at 1 resp. num; a Dec or Dec_notify_all
\* with another generation leaves counter and generation as they are; while the
\* decrements do not outnumber the count there is, the counter is not negative.
C20_GenerationAccounting ==
    /\ [](counter = semh.base + semh.added - semh.decs)
    /\ [](semh.decs <= semh.base + semh.added => counter >= 0)
    /\ [][semh' # semh =>
            LET g == semh'.gen
            IN  /\ semh'.op = "Inc" =>
                      IF generation = g
                      THEN counter' = counter + 1 /\ generation' = generation
                      ELSE counter' = 1 /\ generation' = g
                /\ semh'.op = "IncNum" =>
                      IF generation = g
                      THEN counter' = counter + semh'.num /\ generation' = generation
                      ELSE counter' = semh'.num /\ generation' = g
                /\ semh'.op \in {"Dec", "Dec_notify_all"} =>
                      /\ generation' = generation
                      /\ counter' = IF generation = g THEN counter - 1 ELSE counter]_vars

C20_Witness ==
    /\ generation = 1
    /\ semh.op = "Dec_notify_all" /\ semh.gen = 0
    /\ semh.added = 2 /\ semh.decs = 1 /\ counter = 1
    /\ \E t \in SemThreads : spc[t] = "waiting" /\ wait_generation[t] = 1
====
